---- MODULE Spec2Model ----
\* Model of one udp_relay_type instance of host/examples/network_relay.cpp:
\* the constructor, the destructor, server_thread, client_thread, and the
\* datagrams the network delivers to the two sockets.
EXTENDS Integers, Sequences, FiniteSets, TLC

\* ---------------------------------------------------------------------
\* Bounds and program constants
\* ---------------------------------------------------------------------
\* number of datagrams the network delivers to the server socket
MaxFwd == 2
\* number of datagrams the network delivers to the client socket
MaxRev == 2

\* static const size_t insane_mtu = 9000;
insane_mtu == 9000

\* asio::ip::udp::endpoint is an (address, port) pair; a default-constructed
\* endpoint is 0.0.0.0:0
DefaultEndpoint == [addr |-> 0, port |-> 0]
SrcA == [addr |-> 1, port |-> 1000]
SrcB == [addr |-> 2, port |-> 2000]

\* the size of the k-th datagram the fixed peer delivers to the client
\* socket: alternately a short one ("PONG") and the smallest that does not
\* fit buff
ReverseLen(k) == IF k % 2 = 1 THEN 4 ELSE insane_mtu + 1

\* the datagrams the network may deliver to the server socket: the largest
\* that fits buff and the smallest that does not, from different sources
ForwardInputs == {[src |-> SrcA, len |-> insane_mtu],
                  [src |-> SrcB, len |-> insane_mtu + 1]}

\* const size_t tx_dsp_buff_size = (1 << 20);
tx_dsp_buff_size == 1048576

\* buffer size arguments of the constructor: 0 (leave the OS default) or not
BuffSizes == {0, tx_dsp_buff_size}

\* main creates five instances: ctrl, rxdsp0, txdsp0 and rxdsp1, and then
\* gps. The last one is the instance modelled in detail; the four created
\* before it are represented by their number.
NumOthers == 4

VARIABLES
    main_pc,          \* position of the thread that constructs and destroys
    server_pc,        \* position of server_thread
    client_pc,        \* position of client_thread
    server_socket,    \* "none" | "open" | "released"
    client_socket,    \* "none" | "opened" | "open" (connected) | "released"
    cv_waiting,       \* main thread is blocked inside wait_for_thread.wait
    started,          \* [thread -> has called wait_for_thread.notify_one]
    interruption_requested, \* [thread -> boost interruption flag]
    endpoint,         \* _endpoint
    endpoint_mutex,   \* owner of _endpoint_mutex: "none" | "server" | "client"
    server_inbox,     \* datagrams queued at the server socket
    client_inbox,     \* datagrams queued at the client socket
    server_buff,      \* payload held in server_thread's buff (first len bytes)
    client_buff,      \* payload held in client_thread's buff (first len bytes)
    fwd_in,           \* history: every datagram delivered to the server socket
    rev_in,           \* history: every payload delivered to the client socket
    fwd_recv,         \* history: datagrams server_thread has received
    rev_recv,         \* history: datagrams client_thread has received
    fwd_sent,         \* history: payloads sent by _client_socket->send
    rev_sent,         \* history: datagrams sent by _server_socket->send_to
    client_nsent,      \* history: the number of forward datagrams that had
                       \* been sent to the peer when the datagram in
                       \* client_buff was received
    client_unrecorded, \* history: the datagram in client_buff was received
                      \* while server_thread had not yet received any
    waits_after,      \* history: [thread -> selects begun after interruption]
    sends_after,      \* history: [thread -> sends done after interruption]
    fatal,            \* an exception escaped a thread: std::terminate
    others_alive,     \* how many of the four earlier instances exist
    handler_installed, \* std::signal(SIGINT, &sig_int_handler) has been called
    stop_signal_called, \* the static flag set by sig_int_handler
    killed            \* SIGINT with its default action has ended the process

vars == <<main_pc, server_pc, client_pc, server_socket, client_socket,
          cv_waiting, started, interruption_requested, endpoint,
          endpoint_mutex, server_inbox, client_inbox, server_buff,
          client_buff, fwd_in, rev_in, fwd_recv, rev_recv, fwd_sent,
          rev_sent, client_unrecorded, client_nsent, waits_after,
          sends_after, fatal, others_alive, handler_installed,
          stop_signal_called, killed>>

ctor_vars == <<main_pc, server_socket, client_socket>>
net_vars == <<server_inbox, client_inbox, fwd_in, rev_in>>
hist_vars == <<fwd_recv, rev_recv, fwd_sent, rev_sent, client_unrecorded,
               client_nsent, waits_after, sends_after>>
thread_vars == <<server_pc, client_pc, started, interruption_requested,
                 endpoint, endpoint_mutex, server_buff, client_buff>>

main_vars == <<others_alive, handler_installed, stop_signal_called, killed>>

Threads == {"server", "client"}

\* the process has neither been terminated nor been killed
Alive == ~fatal /\ ~killed

NoPayload == [id |-> 0, len |-> 0]

Min(a, b) == IF a < b THEN a ELSE b

\* ReceiveInto with the buffer taken one byte too short
ReceiveIntoShort(payload, n) ==
    [id |-> payload.id, len |-> Min(payload.len, n - 1)]

\* the first n bytes of a payload: what a receive into a buffer of n bytes
\* leaves in the buffer
ReceiveInto(payload, n) == [id |-> payload.id, len |-> Min(payload.len, n)]

Init ==
    /\ main_pc = "create_others"
    /\ server_pc = "none"
    /\ client_pc = "none"
    /\ server_socket = "none"
    /\ client_socket = "none"
    /\ cv_waiting = FALSE
    /\ started = [t \in Threads |-> FALSE]
    /\ interruption_requested = [t \in Threads |-> FALSE]
    /\ endpoint = DefaultEndpoint
    /\ endpoint_mutex = "none"
    /\ server_inbox = <<>>
    /\ client_inbox = <<>>
    /\ server_buff = NoPayload
    /\ client_buff = NoPayload
    /\ fwd_in = <<>>
    /\ rev_in = <<>>
    /\ fwd_recv = <<>>
    /\ rev_recv = <<>>
    /\ fwd_sent = <<>>
    /\ rev_sent = <<>>
    /\ client_unrecorded = FALSE
    /\ client_nsent = 0
    /\ waits_after = [t \in Threads |-> 0]
    /\ sends_after = [t \in Threads |-> 0]
    /\ fatal = FALSE
    /\ others_alive = 0
    /\ handler_installed = FALSE
    /\ stop_signal_called = FALSE
    /\ killed = FALSE

\* ---------------------------------------------------------------------
\* The network
\* ---------------------------------------------------------------------
\* a datagram from some source reaches the bound server socket
ServerArrive ==
    /\ Alive
    /\ server_socket = "open"
    /\ Len(fwd_in) < MaxFwd
    /\ \E in \in ForwardInputs :
         LET d == [src |-> in.src,
                   payload |-> [id |-> Len(fwd_in) + 1, len |-> in.len]]
         IN /\ server_inbox' = Append(server_inbox, d)
            /\ fwd_in' = Append(fwd_in, d)
    /\ UNCHANGED <<ctor_vars, thread_vars, hist_vars, cv_waiting, fatal,
                   main_vars, client_inbox, rev_in>>

\* a datagram from the fixed peer reaches the connected client socket
ClientArrive ==
    /\ Alive
    /\ client_socket = "open"
    /\ Len(rev_in) < MaxRev
    /\ LET k == Len(rev_in) + 1
           p == [id |-> k, len |-> ReverseLen(k)]
       IN /\ client_inbox' = Append(client_inbox, p)
          /\ rev_in' = Append(rev_in, p)
    /\ UNCHANGED <<ctor_vars, thread_vars, hist_vars, cv_waiting, fatal,
                   main_vars, server_inbox, fwd_in>>

\* ---------------------------------------------------------------------
\* UHD_SAFE_MAIN and sig_int_handler
\* ---------------------------------------------------------------------
\* new udp_relay_type(...) for ctrl, rxdsp0, txdsp0 and rxdsp1 returns; after
\* the fourth, the construction of gps begins
CreateOther ==
    /\ Alive
    /\ main_pc = "create_others"
    /\ others_alive < NumOthers
    /\ others_alive' = others_alive + 1
    /\ main_pc' = (IF others_alive + 1 = NumOthers THEN "resolve_server"
                   ELSE "create_others")
    /\ UNCHANGED <<server_socket, client_socket, thread_vars, net_vars,
                   hist_vars, cv_waiting, fatal, handler_installed,
                   stop_signal_called, killed>>

\* the constructor of one of the four earlier instances throws: the
\* exception leaves the block of main
OtherThrow ==
    /\ Alive
    /\ main_pc = "create_others"
    /\ main_pc' = "unwind"
    /\ UNCHANGED <<server_socket, client_socket, thread_vars, net_vars,
                   hist_vars, cv_waiting, fatal, main_vars>>

\* std::signal(SIGINT, &sig_int_handler), after all five instances exist;
\* then the loop while (not stop_signal_called) sleep_for(100 ms)
InstallHandler ==
    /\ Alive
    /\ main_pc = "active"
    /\ main_pc' = "poll"
    /\ handler_installed' = TRUE
    /\ UNCHANGED <<server_socket, client_socket, thread_vars, net_vars,
                   hist_vars, cv_waiting, fatal, others_alive,
                   stop_signal_called, killed>>

\* SIGINT is delivered to the process: sig_int_handler sets the flag if it
\* has been installed, and the default action ends the process otherwise
SigInt ==
    /\ Alive
    /\ main_pc # "exit_success"
    /\ ~stop_signal_called
    /\ IF handler_installed
       THEN stop_signal_called' = TRUE /\ killed' = killed
       ELSE killed' = TRUE /\ stop_signal_called' = stop_signal_called
    /\ UNCHANGED <<ctor_vars, thread_vars, net_vars, hist_vars, cv_waiting,
                   fatal, others_alive, handler_installed>>

\* the shared_ptr of one of the four earlier instances goes out of scope, at
\* the end of the block of main or while an exception leaves it
ReleaseOther ==
    /\ Alive
    /\ main_pc \in {"destroyed", "failed", "unwind"}
    /\ others_alive > 0
    /\ others_alive' = others_alive - 1
    /\ UNCHANGED <<ctor_vars, thread_vars, net_vars, hist_vars, cv_waiting,
                   fatal, handler_installed, stop_signal_called, killed>>

\* the block of main has been left: return EXIT_SUCCESS
ExitSuccess ==
    /\ Alive
    /\ main_pc = "destroyed"
    /\ others_alive = 0
    /\ main_pc' = "exit_success"
    /\ UNCHANGED <<server_socket, client_socket, thread_vars, net_vars,
                   hist_vars, cv_waiting, fatal, main_vars>>

\* ---------------------------------------------------------------------
\* udp_relay_type::udp_relay_type
\* ---------------------------------------------------------------------
CtorAdvance(from, to) ==
    /\ Alive
    /\ main_pc = from
    /\ main_pc' = to

\* resolver.resolve(asio::ip::udp::v4(), server_addr, port)
ResolveServer ==
    /\ CtorAdvance("resolve_server", "bind_server")
    /\ UNCHANGED <<server_socket, client_socket, thread_vars, net_vars,
                   hist_vars, cv_waiting, fatal, main_vars>>

\* new asio::ip::udp::socket(_io_context, endpoint): open and bind
BindServer ==
    /\ CtorAdvance("bind_server", "resize_server")
    /\ server_socket' = "open"
    /\ UNCHANGED <<client_socket, thread_vars, net_vars, hist_vars,
                   cv_waiting, fatal, main_vars>>

\* resize_buffs(_server_socket, server_rx_size, server_tx_size)
ResizeServer ==
    /\ CtorAdvance("resize_server", "resolve_client")
    /\ UNCHANGED <<server_socket, client_socket, thread_vars, net_vars,
                   hist_vars, cv_waiting, fatal, main_vars>>

\* resolver.resolve(asio::ip::udp::v4(), client_addr, port)
ResolveClient ==
    /\ CtorAdvance("resolve_client", "open_client")
    /\ UNCHANGED <<server_socket, client_socket, thread_vars, net_vars,
                   hist_vars, cv_waiting, fatal, main_vars>>

\* new asio::ip::udp::socket(_io_context); _client_socket->open(v4())
OpenClient ==
    /\ CtorAdvance("open_client", "connect_client")
    /\ client_socket' = "opened"
    /\ UNCHANGED <<server_socket, thread_vars, net_vars, hist_vars,
                   cv_waiting, fatal, main_vars>>

\* _client_socket->connect(endpoint)
ConnectClient ==
    /\ CtorAdvance("connect_client", "resize_client")
    /\ client_socket' = "open"
    /\ UNCHANGED <<server_socket, thread_vars, net_vars, hist_vars,
                   cv_waiting, fatal, main_vars>>

\* resize_buffs(_client_socket, client_rx_size, client_tx_size)
ResizeClient ==
    /\ CtorAdvance("resize_client", "spawn_server")
    /\ UNCHANGED <<server_socket, client_socket, thread_vars, net_vars,
                   hist_vars, cv_waiting, fatal, main_vars>>

\* Unwound with the socket left as it was: a leaked handle
UnwoundLeak(sock) == sock

\* what the unwinding of a constructor that throws does to a socket member:
\* the shared_ptr member is destroyed, which closes a socket it holds
Unwound(sock) == IF sock = "none" THEN "none" ELSE "released"

\* the constructor steps in which asio throws boost::system::system_error;
\* resize_buffs calls set_option only for a size that is not 0
CanThrow(pc, rx_size, tx_size) ==
    \/ pc \in {"resolve_server", "bind_server", "resolve_client",
               "open_client", "connect_client"}
    \/ /\ pc \in {"resize_server", "resize_client"}
       /\ (rx_size # 0 \/ tx_size # 0)

\* an exception leaves the constructor: the members are destroyed and the
\* exception reaches the caller
CtorThrow ==
    /\ Alive
    /\ \E rx_size \in BuffSizes, tx_size \in BuffSizes :
         CanThrow(main_pc, rx_size, tx_size)
    /\ main_pc' = "failed"
    /\ server_socket' = Unwound(server_socket)
    /\ client_socket' = Unwound(client_socket)
    /\ UNCHANGED <<thread_vars, net_vars, hist_vars, cv_waiting, fatal,
                   main_vars>>

\* _thread_group.create_thread(std::bind(&udp_relay_type::server_thread, this))
SpawnServer ==
    /\ CtorAdvance("spawn_server", "wait1")
    /\ server_pc' = "entry"
    /\ UNCHANGED <<server_socket, client_socket, client_pc, started,
                   interruption_requested, endpoint, endpoint_mutex,
                   server_buff, client_buff, net_vars, hist_vars,
                   cv_waiting, fatal, main_vars>>

\* _thread_group.create_thread(std::bind(&udp_relay_type::client_thread, this))
SpawnClient ==
    /\ CtorAdvance("spawn_client", "wait2")
    /\ client_pc' = "entry"
    /\ UNCHANGED <<server_socket, client_socket, server_pc, started,
                   interruption_requested, endpoint, endpoint_mutex,
                   server_buff, client_buff, net_vars, hist_vars,
                   cv_waiting, fatal, main_vars>>

\* wait_for_thread.wait(lock): release spawn_mutex and block
WaitEnter ==
    /\ Alive
    /\ main_pc \in {"wait1", "wait2"}
    /\ main_pc' = (IF main_pc = "wait1" THEN "blocked1" ELSE "blocked2")
    /\ cv_waiting' = TRUE
    /\ UNCHANGED <<server_socket, client_socket, thread_vars, net_vars,
                   hist_vars, fatal, main_vars>>

\* wait_for_thread.wait(lock) returns once the waiter has been woken
WaitReturn ==
    /\ Alive
    /\ main_pc \in {"blocked1", "blocked2"}
    /\ ~cv_waiting
    /\ main_pc' = (IF main_pc = "blocked1" THEN "spawn_client" ELSE "active")
    /\ UNCHANGED <<server_socket, client_socket, thread_vars, net_vars,
                   hist_vars, cv_waiting, fatal, main_vars>>

\* a condition variable wait may wake without a notification
SpuriousWakeup ==
    /\ Alive
    /\ cv_waiting
    /\ cv_waiting' = FALSE
    /\ UNCHANGED <<ctor_vars, thread_vars, net_vars, hist_vars, fatal,
                   main_vars>>

\* ---------------------------------------------------------------------
\* udp_relay_type::server_thread
\* ---------------------------------------------------------------------
Bump(f, t) == [f EXCEPT ![t] = IF interruption_requested[t] THEN @ + 1 ELSE @]

\* entering server_thread: wait_for_thread.notify_one() wakes the waiter if
\* there is one and is lost otherwise
ServerStart ==
    /\ Alive
    /\ server_pc = "entry"
    /\ server_pc' = "check"
    /\ started' = [started EXCEPT !["server"] = TRUE]
    /\ cv_waiting' = FALSE
    /\ UNCHANGED <<ctor_vars, client_pc, interruption_requested, endpoint,
                   endpoint_mutex, server_buff, client_buff, net_vars,
                   hist_vars, fatal, main_vars>>

\* while (not boost::this_thread::interruption_requested())
ServerCheck ==
    /\ Alive
    /\ server_pc = "check"
    /\ server_pc' = (IF interruption_requested["server"] THEN "exited"
                     ELSE "wait")
    /\ UNCHANGED <<ctor_vars, client_pc, started, interruption_requested,
                   endpoint, endpoint_mutex, server_buff, client_buff,
                   net_vars, hist_vars, cv_waiting, fatal, main_vars>>

\* wait_for_recv_ready(_server_socket->native_handle()) is called: select
\* with a timeout of 100 ms begins
ServerSelect ==
    /\ Alive
    /\ server_pc = "wait"
    /\ server_pc' = "select"
    /\ waits_after' = Bump(waits_after, "server")
    /\ UNCHANGED <<ctor_vars, client_pc, started, interruption_requested,
                   endpoint, endpoint_mutex, server_buff, client_buff,
                   net_vars, fwd_recv, rev_recv, fwd_sent, rev_sent,
                   client_unrecorded, client_nsent, sends_after, cv_waiting,
                   fatal, main_vars>>

\* select returns > 0: a datagram is readable on the server socket
ServerReady ==
    /\ Alive
    /\ server_pc = "select"
    /\ server_inbox # <<>>
    /\ server_pc' = "lock"
    /\ UNCHANGED <<ctor_vars, client_pc, started, interruption_requested,
                   endpoint, endpoint_mutex, server_buff, client_buff,
                   net_vars, hist_vars, cv_waiting, fatal, main_vars>>

\* ServerTimeout with the wait repeated before the flag is checked again
ServerTimeoutRewait ==
    /\ Alive
    /\ server_pc = "select"
    /\ server_inbox = <<>>
    /\ server_pc' = "wait"
    /\ UNCHANGED <<ctor_vars, client_pc, started, interruption_requested,
                   endpoint, endpoint_mutex, server_buff, client_buff,
                   net_vars, hist_vars, cv_waiting, fatal, main_vars>>

\* select returns 0 after 100 ms: nothing is readable
ServerTimeout ==
    /\ Alive
    /\ server_pc = "select"
    /\ server_inbox = <<>>
    /\ server_pc' = "check"
    /\ UNCHANGED <<ctor_vars, client_pc, started, interruption_requested,
                   endpoint, endpoint_mutex, server_buff, client_buff,
                   net_vars, hist_vars, cv_waiting, fatal, main_vars>>

\* std::unique_lock<std::mutex> lock(_endpoint_mutex)
ServerLock ==
    /\ Alive
    /\ server_pc = "lock"
    /\ endpoint_mutex = "none"
    /\ endpoint_mutex' = "server"
    /\ server_pc' = "recv"
    /\ UNCHANGED <<ctor_vars, client_pc, started, interruption_requested,
                   endpoint, server_buff, client_buff, net_vars, hist_vars,
                   cv_waiting, fatal, main_vars>>

\* ServerRecvFrom that passes the payload on to the peer before the source
\* has been stored and the lock released
ServerRecvFromSendFirst ==
    /\ Alive
    /\ server_pc = "recv"
    /\ server_inbox # <<>>
    /\ server_buff' = ReceiveInto(Head(server_inbox).payload, insane_mtu)
    /\ endpoint' = [endpoint EXCEPT !.addr = Head(server_inbox).src.addr]
    /\ server_pc' = "recv2"
    /\ fwd_sent' = Append(fwd_sent, server_buff')
    /\ UNCHANGED <<ctor_vars, client_pc, started, interruption_requested,
                   endpoint_mutex, client_buff, net_vars, fwd_recv, rev_recv,
                   rev_sent, client_unrecorded, client_nsent, waits_after,
                   sends_after, cv_waiting, fatal, main_vars>>

\* _server_socket->receive_from(buffer(buff), _endpoint), first part: the
\* payload is copied into buff and the sender's address into _endpoint
ServerRecvFrom ==
    /\ Alive
    /\ server_pc = "recv"
    /\ server_inbox # <<>>
    /\ server_buff' = ReceiveInto(Head(server_inbox).payload, insane_mtu)
    /\ endpoint' = [endpoint EXCEPT !.addr = Head(server_inbox).src.addr]
    /\ server_pc' = "recv2"
    /\ UNCHANGED <<ctor_vars, client_pc, started, interruption_requested,
                   endpoint_mutex, client_buff, net_vars, hist_vars,
                   cv_waiting, fatal, main_vars>>

\* ServerRecvDone without lock.unlock(): the lock is kept over the send
ServerRecvDoneHold ==
    /\ Alive
    /\ server_pc = "recv2"
    /\ endpoint' = [endpoint EXCEPT !.port = Head(server_inbox).src.port]
    /\ fwd_recv' = Append(fwd_recv, Head(server_inbox))
    /\ server_inbox' = Tail(server_inbox)
    /\ endpoint_mutex' = endpoint_mutex
    /\ server_pc' = "send"
    /\ UNCHANGED <<ctor_vars, client_pc, started, interruption_requested,
                   server_buff, client_buff, client_inbox, fwd_in, rev_in,
                   rev_recv, fwd_sent, rev_sent, client_unrecorded,
                   client_nsent, waits_after, sends_after, cv_waiting,
                   fatal, main_vars>>

\* receive_from, second part: the sender's port is copied into _endpoint and
\* the datagram leaves the socket's queue; then lock.unlock()
ServerRecvDone ==
    /\ Alive
    /\ server_pc = "recv2"
    /\ endpoint' = [endpoint EXCEPT !.port = Head(server_inbox).src.port]
    /\ fwd_recv' = Append(fwd_recv, Head(server_inbox))
    /\ server_inbox' = Tail(server_inbox)
    /\ endpoint_mutex' = "none"
    /\ server_pc' = "send"
    /\ UNCHANGED <<ctor_vars, client_pc, started, interruption_requested,
                   server_buff, client_buff, client_inbox, fwd_in, rev_in,
                   rev_recv, fwd_sent, rev_sent, client_unrecorded,
                   client_nsent, waits_after, sends_after, cv_waiting,
                   fatal, main_vars>>

\* _client_socket->send(buffer(&buff.front(), len))
ServerSend ==
    /\ Alive
    /\ server_pc = "send"
    /\ fwd_sent' = Append(fwd_sent, server_buff)
    /\ sends_after' = Bump(sends_after, "server")
    /\ server_pc' = "check"
    /\ UNCHANGED <<ctor_vars, client_pc, started, interruption_requested,
                   endpoint, endpoint_mutex, server_buff, client_buff,
                   net_vars, fwd_recv, rev_recv, rev_sent, client_unrecorded,
                   client_nsent, waits_after, cv_waiting, fatal, main_vars>>

\* ServerThrow with the exception ending the thread function only
ServerThrowSwallow ==
    /\ Alive
    /\ server_pc \in {"recv", "send"}
    /\ server_pc' = "exited"
    /\ UNCHANGED <<ctor_vars, client_pc, started, interruption_requested,
                   endpoint, endpoint_mutex, server_buff, client_buff,
                   net_vars, hist_vars, cv_waiting, fatal, main_vars>>

\* receive_from or send throws boost::system::system_error; nothing in
\* server_thread catches it, so the thread function ends in std::terminate
ServerThrow ==
    /\ Alive
    /\ server_pc \in {"recv", "send"}
    /\ fatal' = TRUE
    /\ UNCHANGED <<ctor_vars, thread_vars, net_vars, hist_vars, cv_waiting,
                   main_vars>>

\* the senders of the datagrams server_thread has received so far, and the
\* sender of the last of them
RecordedSources == {fwd_recv[i].src : i \in DOMAIN fwd_recv}
LatestSource ==
    IF fwd_recv = <<>> THEN DefaultEndpoint ELSE fwd_recv[Len(fwd_recv)].src
FirstSource ==
    IF fwd_recv = <<>> THEN DefaultEndpoint ELSE fwd_recv[1].src

\* ---------------------------------------------------------------------
\* udp_relay_type::client_thread
\* ---------------------------------------------------------------------
\* entering client_thread: wait_for_thread.notify_one()
ClientStart ==
    /\ Alive
    /\ client_pc = "entry"
    /\ client_pc' = "check"
    /\ started' = [started EXCEPT !["client"] = TRUE]
    /\ cv_waiting' = FALSE
    /\ UNCHANGED <<ctor_vars, server_pc, interruption_requested, endpoint,
                   endpoint_mutex, server_buff, client_buff, net_vars,
                   hist_vars, fatal, main_vars>>

\* ClientCheck that leaves the loop once a datagram has been relayed
ClientCheckOnce ==
    /\ Alive
    /\ client_pc = "check"
    /\ client_pc' = (IF interruption_requested["client"] \/ rev_sent # <<>>
                     THEN "exited"
                     ELSE "wait")
    /\ UNCHANGED <<ctor_vars, server_pc, started, interruption_requested,
                   endpoint, endpoint_mutex, server_buff, client_buff,
                   net_vars, hist_vars, cv_waiting, fatal, main_vars>>

\* while (not boost::this_thread::interruption_requested())
ClientCheck ==
    /\ Alive
    /\ client_pc = "check"
    /\ client_pc' = (IF interruption_requested["client"] THEN "exited"
                     ELSE "wait")
    /\ UNCHANGED <<ctor_vars, server_pc, started, interruption_requested,
                   endpoint, endpoint_mutex, server_buff, client_buff,
                   net_vars, hist_vars, cv_waiting, fatal, main_vars>>

\* wait_for_recv_ready(_client_socket->native_handle()) is called
ClientSelect ==
    /\ Alive
    /\ client_pc = "wait"
    /\ client_pc' = "select"
    /\ waits_after' = Bump(waits_after, "client")
    /\ UNCHANGED <<ctor_vars, server_pc, started, interruption_requested,
                   endpoint, endpoint_mutex, server_buff, client_buff,
                   net_vars, fwd_recv, rev_recv, fwd_sent, rev_sent,
                   client_unrecorded, client_nsent, sends_after, cv_waiting,
                   fatal, main_vars>>

\* select returns > 0: a datagram is readable on the client socket
ClientReady ==
    /\ Alive
    /\ client_pc = "select"
    /\ client_inbox # <<>>
    /\ client_pc' = "recv"
    /\ UNCHANGED <<ctor_vars, server_pc, started, interruption_requested,
                   endpoint, endpoint_mutex, server_buff, client_buff,
                   net_vars, hist_vars, cv_waiting, fatal, main_vars>>

\* ClientTimeout that treats the timeout as an error and leaves the loop
ClientTimeoutExit ==
    /\ Alive
    /\ client_pc = "select"
    /\ client_inbox = <<>>
    /\ client_pc' = "exited"
    /\ UNCHANGED <<ctor_vars, server_pc, started, interruption_requested,
                   endpoint, endpoint_mutex, server_buff, client_buff,
                   net_vars, hist_vars, cv_waiting, fatal, main_vars>>

\* select returns 0 after 100 ms: nothing is readable
ClientTimeout ==
    /\ Alive
    /\ client_pc = "select"
    /\ client_inbox = <<>>
    /\ client_pc' = "check"
    /\ UNCHANGED <<ctor_vars, server_pc, started, interruption_requested,
                   endpoint, endpoint_mutex, server_buff, client_buff,
                   net_vars, hist_vars, cv_waiting, fatal, main_vars>>

\* ClientRecv that takes the newest datagram of the socket's queue
ClientRecvNewest ==
    /\ Alive
    /\ client_pc = "recv"
    /\ client_inbox # <<>>
    /\ client_buff' = ReceiveInto(client_inbox[Len(client_inbox)], insane_mtu)
    /\ rev_recv' = Append(rev_recv, client_inbox[Len(client_inbox)])
    /\ client_inbox' = SubSeq(client_inbox, 1, Len(client_inbox) - 1)
    /\ client_unrecorded' = (fwd_recv = <<>>)
    /\ client_nsent' = Len(fwd_sent)
    /\ client_pc' = "lock"
    /\ UNCHANGED <<ctor_vars, server_pc, started, interruption_requested,
                   endpoint, endpoint_mutex, server_buff, server_inbox,
                   fwd_in, rev_in, fwd_recv, fwd_sent, rev_sent,
                   waits_after, sends_after, cv_waiting, fatal, main_vars>>

\* _client_socket->receive(buffer(&buff.front(), buff.size()))
ClientRecv ==
    /\ Alive
    /\ client_pc = "recv"
    /\ client_inbox # <<>>
    /\ client_buff' = ReceiveInto(Head(client_inbox), insane_mtu)
    /\ rev_recv' = Append(rev_recv, Head(client_inbox))
    /\ client_inbox' = Tail(client_inbox)
    /\ client_unrecorded' = (fwd_recv = <<>>)
    /\ client_nsent' = Len(fwd_sent)
    /\ client_pc' = "lock"
    /\ UNCHANGED <<ctor_vars, server_pc, started, interruption_requested,
                   endpoint, endpoint_mutex, server_buff, server_inbox,
                   fwd_in, rev_in, fwd_recv, fwd_sent, rev_sent,
                   waits_after, sends_after, cv_waiting, fatal, main_vars>>

\* ClientLock that does not wait for the owner to release the mutex
ClientLockNoWait ==
    /\ Alive
    /\ client_pc = "lock"
    /\ endpoint_mutex' = "client"
    /\ client_pc' = "send_to"
    /\ UNCHANGED <<ctor_vars, server_pc, started, interruption_requested,
                   endpoint, server_buff, client_buff, net_vars, hist_vars,
                   cv_waiting, fatal, main_vars>>

\* std::lock_guard<std::mutex> lock(_endpoint_mutex)
ClientLock ==
    /\ Alive
    /\ client_pc = "lock"
    /\ endpoint_mutex = "none"
    /\ endpoint_mutex' = "client"
    /\ client_pc' = "send_to"
    /\ UNCHANGED <<ctor_vars, server_pc, started, interruption_requested,
                   endpoint, server_buff, client_buff, net_vars, hist_vars,
                   cv_waiting, fatal, main_vars>>

\* ClientSendTo with the first source ever recorded as the destination
ClientSendToFirst ==
    /\ Alive
    /\ client_pc = "send_to"
    /\ rev_sent' = Append(rev_sent, [dest |-> FirstSource,
                                     payload |-> client_buff,
                                     latest |-> LatestSource,
                                     unrecorded |-> client_unrecorded])
    /\ client_unrecorded' = FALSE
    /\ client_nsent' = 0
    /\ sends_after' = Bump(sends_after, "client")
    /\ endpoint_mutex' = "none"
    /\ client_pc' = "check"
    /\ UNCHANGED <<ctor_vars, server_pc, started, interruption_requested,
                   endpoint, server_buff, client_buff, net_vars, fwd_recv,
                   rev_recv, fwd_sent, waits_after, cv_waiting, fatal,
                   main_vars>>

\* ClientSendTo that resets _endpoint after having used it
ClientSendToClear ==
    /\ Alive
    /\ client_pc = "send_to"
    /\ rev_sent' = Append(rev_sent, [dest |-> endpoint,
                                     payload |-> client_buff,
                                     latest |-> LatestSource,
                                     unrecorded |-> client_unrecorded])
    /\ client_unrecorded' = FALSE
    /\ client_nsent' = 0
    /\ sends_after' = Bump(sends_after, "client")
    /\ endpoint_mutex' = "none"
    /\ client_pc' = "check"
    /\ endpoint' = DefaultEndpoint
    /\ UNCHANGED <<ctor_vars, server_pc, started, interruption_requested,
                   server_buff, client_buff, net_vars, fwd_recv,
                   rev_recv, fwd_sent, waits_after, cv_waiting, fatal,
                   main_vars>>

\* ClientSendTo whose lock is not released at the end of the block
ClientSendToHold ==
    /\ Alive
    /\ client_pc = "send_to"
    /\ rev_sent' = Append(rev_sent, [dest |-> endpoint,
                                     payload |-> client_buff,
                                     latest |-> LatestSource,
                                     unrecorded |-> client_unrecorded])
    /\ client_unrecorded' = FALSE
    /\ client_nsent' = 0
    /\ sends_after' = Bump(sends_after, "client")
    /\ endpoint_mutex' = endpoint_mutex
    /\ client_pc' = "check"
    /\ UNCHANGED <<ctor_vars, server_pc, started, interruption_requested,
                   endpoint, server_buff, client_buff, net_vars, fwd_recv,
                   rev_recv, fwd_sent, waits_after, cv_waiting, fatal,
                   main_vars>>

\* _server_socket->send_to(buffer(&buff.front(), len), _endpoint); the
\* lock_guard then releases _endpoint_mutex at the end of the block
ClientSendTo ==
    /\ Alive
    /\ client_pc = "send_to"
    /\ rev_sent' = Append(rev_sent, [dest |-> endpoint,
                                     payload |-> client_buff,
                                     latest |-> LatestSource,
                                     unrecorded |-> client_unrecorded])
    /\ client_unrecorded' = FALSE
    /\ client_nsent' = 0
    /\ sends_after' = Bump(sends_after, "client")
    /\ endpoint_mutex' = "none"
    /\ client_pc' = "check"
    /\ UNCHANGED <<ctor_vars, server_pc, started, interruption_requested,
                   endpoint, server_buff, client_buff, net_vars, fwd_recv,
                   rev_recv, fwd_sent, waits_after, cv_waiting, fatal,
                   main_vars>>

\* receive or send_to throws boost::system::system_error; nothing in
\* client_thread catches it, so the thread function ends in std::terminate
ClientThrow ==
    /\ Alive
    /\ client_pc \in {"recv", "send_to"}
    /\ fatal' = TRUE
    /\ UNCHANGED <<ctor_vars, thread_vars, net_vars, hist_vars, cv_waiting,
                   main_vars>>

\* ---------------------------------------------------------------------
\* udp_relay_type::~udp_relay_type
\* ---------------------------------------------------------------------
\* main has seen stop_signal_called and leaves its block: gps, declared
\* last, is destroyed first, so its destructor is entered
Destroy ==
    /\ CtorAdvance("poll", "interrupt_server")
    /\ stop_signal_called
    /\ UNCHANGED <<server_socket, client_socket, thread_vars, net_vars,
                   hist_vars, cv_waiting, fatal, main_vars>>

\* InterruptAll that interrupts the first thread of the group only
InterruptAllServerOnly ==
    /\ Alive
    /\ main_pc \in {"interrupt_server", "interrupt_client"}
    /\ LET t == IF main_pc = "interrupt_server" THEN "server" ELSE "client"
       IN interruption_requested' =
              [interruption_requested EXCEPT ![t] = (t = "server")]
    /\ main_pc' = (IF main_pc = "interrupt_server" THEN "interrupt_client"
                   ELSE "join_all")
    /\ UNCHANGED <<server_socket, client_socket, server_pc, client_pc,
                   started, endpoint, endpoint_mutex, server_buff,
                   client_buff, net_vars, hist_vars, cv_waiting, fatal,
                   main_vars>>

\* _thread_group.interrupt_all() interrupts the threads in creation order
InterruptAll ==
    /\ Alive
    /\ main_pc \in {"interrupt_server", "interrupt_client"}
    /\ LET t == IF main_pc = "interrupt_server" THEN "server" ELSE "client"
       IN interruption_requested' =
              [interruption_requested EXCEPT ![t] = TRUE]
    /\ main_pc' = (IF main_pc = "interrupt_server" THEN "interrupt_client"
                   ELSE "join_all")
    /\ UNCHANGED <<server_socket, client_socket, server_pc, client_pc,
                   started, endpoint, endpoint_mutex, server_buff,
                   client_buff, net_vars, hist_vars, cv_waiting, fatal,
                   main_vars>>

\* JoinAll that returns without waiting for the thread functions
JoinAllNoWait ==
    /\ CtorAdvance("join_all", "release")
    /\ UNCHANGED <<server_socket, client_socket, thread_vars, net_vars,
                   hist_vars, cv_waiting, fatal, main_vars>>

\* _thread_group.join_all() returns when both thread functions have returned
JoinAll ==
    /\ CtorAdvance("join_all", "release")
    /\ server_pc = "exited"
    /\ client_pc = "exited"
    /\ UNCHANGED <<server_socket, client_socket, thread_vars, net_vars,
                   hist_vars, cv_waiting, fatal, main_vars>>

\* the destructor body has returned: the members are destroyed, which closes
\* both sockets
ReleaseMembers ==
    /\ CtorAdvance("release", "destroyed")
    /\ server_socket' = "released"
    /\ client_socket' = "released"
    /\ UNCHANGED <<thread_vars, net_vars, hist_vars, cv_waiting, fatal,
                   main_vars>>

ServerStep ==
    \/ ServerStart \/ ServerCheck \/ ServerSelect \/ ServerReady
    \/ ServerTimeout \/ ServerLock \/ ServerRecvFrom \/ ServerRecvDone
    \/ ServerSend

ClientStep ==
    \/ ClientStart \/ ClientCheck \/ ClientSelect \/ ClientReady
    \/ ClientTimeout \/ ClientRecv \/ ClientLock \/ ClientSendTo

CtorStep ==
    \/ ResolveServer \/ BindServer \/ ResizeServer
    \/ ResolveClient \/ OpenClient \/ ConnectClient \/ ResizeClient
    \/ SpawnServer \/ SpawnClient \/ WaitEnter \/ WaitReturn

DtorStep == InterruptAll \/ JoinAll \/ ReleaseMembers

MainStep == InstallHandler \/ Destroy \/ ReleaseOther \/ ExitSuccess

Next ==
    \/ ServerArrive \/ ClientArrive \/ SigInt
    \/ CreateOther \/ OtherThrow
    \/ CtorStep \/ CtorThrow \/ SpuriousWakeup
    \/ ServerStep \/ ServerThrow
    \/ ClientStep \/ ClientThrow
    \/ MainStep \/ DtorStep

Spec == Init /\ [][Next]_vars

\* the scheduler runs every thread that can take a step; the network, the
\* signal, socket errors, spurious wake-ups and the return of the earlier
\* instances' constructors are not obliged to happen
FairSpec ==
    /\ Spec
    /\ WF_vars(ServerStep)
    /\ WF_vars(ClientStep)
    /\ WF_vars(CtorStep)
    /\ WF_vars(DtorStep)
    /\ WF_vars(MainStep)

TypeOK ==
    /\ server_pc \in {"none", "entry", "check", "wait", "select", "lock",
                      "recv", "recv2", "send", "exited"}
    /\ client_pc \in {"none", "entry", "check", "wait", "select", "recv",
                      "lock", "send_to", "exited"}
    /\ endpoint_mutex \in {"none", "server", "client"}
    /\ Len(fwd_in) <= MaxFwd
    /\ Len(rev_in) <= MaxRev
    /\ others_alive \in 0..NumOthers
    /\ killed => ~handler_installed

\* ---------------------------------------------------------------------
\* Properties
\* ---------------------------------------------------------------------
\* the constructor has returned normally to its caller
Returned ==
    main_pc \in {"active", "poll", "interrupt_server", "interrupt_client",
                 "join_all", "release", "destroyed", "exit_success"}

\* the destructor body has returned
DtorReturned == main_pc \in {"release", "destroyed", "exit_success"}

IsPrefix(s, t) ==
    /\ Len(s) <= Len(t)
    /\ \A i \in DOMAIN s : s[i] = t[i]

\* what a payload delivered by the network looks like after one pass through
\* the relay: whole up to insane_mtu bytes, and its first insane_mtu bytes
\* beyond that
Relayed(p) ==
    IF p.len <= insane_mtu THEN p ELSE [id |-> p.id, len |-> insane_mtu]

\* C1: when the constructor has returned, both server_thread and
\* client_thread have been entered and have each signaled 'started'.
C1_StartBarrier ==
    Returned => (started["server"] /\ started["client"])

\* C2 (as claimed): the payloads sent to the client peer are, unchanged and
\* in order, a prefix of the payloads delivered to the server socket.
C2_ForwardVerbatim ==
    IsPrefix(fwd_sent, [i \in DOMAIN fwd_in |-> fwd_in[i].payload])

\* C2 (amended): the payloads sent to the client peer are, in order, a prefix
\* of the payloads delivered to the server socket, each unchanged when it has
\* at most insane_mtu bytes and cut to its first insane_mtu bytes otherwise,
\* with one send per received datagram.
C2_ForwardTruncated ==
    /\ IsPrefix(fwd_sent, [i \in DOMAIN fwd_in |-> Relayed(fwd_in[i].payload)])
    /\ IsPrefix(fwd_recv, fwd_in)
    /\ Len(fwd_sent) =
         (IF server_pc = "send" THEN Len(fwd_recv) - 1 ELSE Len(fwd_recv))

\* two datagrams went through the forward path, one at the size limit and
\* one above it
C2_Witness ==
    /\ Len(fwd_sent) = 2
    /\ \E i, j \in DOMAIN fwd_sent :
         /\ fwd_in[i].payload.len = insane_mtu + 1
         /\ fwd_in[j].payload.len = insane_mtu

\* C3 (as claimed): a datagram the client loop received after some forward
\* datagram had been received is sent unchanged to the source of the most
\* recently received forward datagram.
C3_ReverseToLatestVerbatim ==
    \A i \in DOMAIN rev_sent :
        ~rev_sent[i].unrecorded =>
            /\ rev_sent[i].dest = rev_sent[i].latest
            /\ rev_sent[i].payload = rev_recv[i]

\* C3 (amended): such a datagram is sent to the source of the most recently
\* received forward datagram, unchanged when it has at most insane_mtu bytes
\* and cut to its first insane_mtu bytes otherwise.
C3_ReverseToLatest ==
    \A i \in DOMAIN rev_sent :
        ~rev_sent[i].unrecorded =>
            /\ rev_sent[i].dest = rev_sent[i].latest
            /\ rev_sent[i].latest # DefaultEndpoint
            /\ rev_sent[i].payload = Relayed(rev_recv[i])

\* forward datagrams came from A and then from B, and a reverse datagram
\* above the size limit, received after them, went to B
C3_Witness ==
    /\ Len(fwd_recv) = 2
    /\ fwd_recv[1].src = SrcA
    /\ fwd_recv[2].src = SrcB
    /\ \E i \in DOMAIN rev_sent :
         /\ ~rev_sent[i].unrecorded
         /\ rev_sent[i].dest = SrcB
         /\ rev_recv[i].len = insane_mtu + 1
         /\ \E j \in DOMAIN rev_sent : rev_recv[j].len <= insane_mtu

\* C4: a datagram the client loop received while no source endpoint had ever
\* been recorded is not sent: the client loop never reaches send_to with it.
C4_SkipUnrecorded ==
    /\ ~(client_pc = "send_to" /\ client_unrecorded)
    /\ \A i \in DOMAIN rev_sent : ~rev_sent[i].unrecorded

C7_CancellationLatency ==
    /\ \A t \in Threads : waits_after[t] <= 1 /\ sends_after[t] <= 1
    /\ (Alive /\ server_pc = "select" /\ server_inbox = <<>>)
         => ENABLED ServerTimeout
    /\ (Alive /\ client_pc = "select" /\ client_inbox = <<>>)
         => ENABLED ClientTimeout

\* both loops have exited after one further wait each, and no datagram ever
\* arrived on either socket
C7_Witness ==
    /\ server_pc = "exited"
    /\ client_pc = "exited"
    /\ waits_after["server"] = 1
    /\ waits_after["client"] = 1
    /\ fwd_in = <<>>
    /\ rev_in = <<>>

\* C8: when construction has failed, no socket is left open and neither loop
\* has been created or has signaled.
C8_AtomicFailure ==
    main_pc = "failed" =>
        /\ server_socket \in {"none", "released"}
        /\ client_socket \in {"none", "released"}
        /\ server_pc = "none"
        /\ client_pc = "none"
        /\ ~started["server"]
        /\ ~started["client"]

\* construction failed after both sockets had been opened
C8_Witness ==
    /\ main_pc = "failed"
    /\ server_socket = "released"
    /\ client_socket = "released"

\* C9 (as claimed): no loop holds _endpoint_mutex while it is inside a socket
\* receive or send.
C9_NoLockAcrossIO ==
    /\ ~(endpoint_mutex = "server" /\ server_pc \in {"recv", "recv2", "send"})
    /\ ~(endpoint_mutex = "client" /\ client_pc \in {"recv", "send_to"})

\* C9 (amended): _endpoint_mutex is held exactly across the one socket call
\* that writes or reads _endpoint (receive_from in the server loop, send_to
\* in the client loop), and never during a readiness wait, the client loop's
\* receive or the server loop's send.
C9_LockScope ==
    /\ (endpoint_mutex = "server") <=> (server_pc \in {"recv", "recv2"})
    /\ (endpoint_mutex = "client") <=> (client_pc = "send_to")

\* the client loop is inside send_to with the lock while the server loop,
\* with a datagram readable, waits for the lock
C9_Witness ==
    /\ endpoint_mutex = "client"
    /\ client_pc = "send_to"
    /\ server_pc = "lock"

\* C10: the two loops are never both inside the endpoint critical section,
\* and every destination the client loop uses is the initial endpoint or the
\* whole source endpoint of one received forward datagram.
C10_NoTornEndpoint ==
    /\ ~(server_pc \in {"recv", "recv2"} /\ client_pc = "send_to")
    /\ client_pc = "send_to" => endpoint \in {DefaultEndpoint} \cup RecordedSources
    /\ \A i \in DOMAIN rev_sent :
         rev_sent[i].dest \in {DefaultEndpoint} \cup RecordedSources

\* the recorded endpoint went from A to B between two reverse sends
C10_Witness ==
    /\ Len(rev_sent) = 2
    /\ rev_sent[1].dest = SrcA
    /\ rev_sent[2].dest = SrcB

\* C11: a receive or send that throws ends the whole process: a loop leaves
\* a socket call only by completing it, never by exiting alone, and once an
\* exception has escaped a thread no step of either loop, of the constructor
\* or of the destructor follows.
C11_ErrorsFatal ==
    [][/\ ~fatal
       /\ (server_pc \in {"recv", "send"} /\ server_pc' # server_pc)
            => server_pc' \in {"recv2", "check"}
       /\ (client_pc \in {"recv", "send_to"} /\ client_pc' # client_pc)
            => client_pc' \in {"lock", "check"}]_vars

\* the server loop's send has thrown while the client loop was in its wait
\* with a datagram readable: the process has ended
C11_Witness ==
    /\ fatal
    /\ server_pc = "send"
    /\ client_pc = "select"
    /\ client_inbox # <<>>

\* C12 (as claimed, with process termination by an uncaught socket error set
\* aside): once SIGINT has been delivered, whether sig_int_handler or the
\* default action received it, the process eventually returns EXIT_SUCCESS
\* with every created instance destroyed: both loops of gps exited, its
\* sockets released and none of the earlier instances left.
C12_OrderlyShutdown ==
    (killed \/ stop_signal_called)
        ~> (fatal \/ (/\ main_pc = "exit_success"
                      /\ others_alive = 0
                      /\ server_pc = "exited" /\ client_pc = "exited"
                      /\ server_socket = "released"
                      /\ client_socket = "released"))

\* C13: once resolution, bind and connect have succeeded and the constructor
\* is about to create its threads, the constructor eventually returns
\* (unless the process ends first), both threads being scheduled fairly.
C13_ConstructionTerminates ==
    (main_pc = "spawn_server") ~> (Returned \/ fatal \/ killed)

\* a thread function at pc is between the while-test and the end of the body
InLoop(pc) == pc \notin {"none", "entry", "exited"}

\* C14: a thread function has returned only if cancellation of its thread
\* was requested, and between the return of the constructor and the
\* destructor's interrupt_all neither thread function has returned nor has
\* cancellation been requested.
C14_LoopsRunForLifetime ==
    /\ server_pc = "exited" => interruption_requested["server"]
    /\ client_pc = "exited" => interruption_requested["client"]
    /\ main_pc \in {"active", "poll", "interrupt_server"}
         => /\ server_pc # "exited" /\ client_pc # "exited"
            /\ ~interruption_requested["server"]
            /\ ~interruption_requested["client"]
    /\ main_pc = "interrupt_client"
         => client_pc # "exited" /\ ~interruption_requested["client"]

\* the server loop has been cancelled and has exited while the client loop,
\* not yet cancelled, is still relaying after having sent a datagram
C14_Witness ==
    /\ main_pc = "interrupt_client"
    /\ server_pc = "exited"
    /\ InLoop(client_pc)
    /\ client_pc = "send_to"
    /\ rev_sent # <<>>

\* C15: a step changes _endpoint only if it is a step of the server loop's
\* receive_from, and neither the client loop nor the constructor or the
\* destructor moves in that step; each forward datagram the server loop
\* receives leaves _endpoint equal to that datagram's source.
C15_SingleWriter ==
    [][/\ endpoint' # endpoint
            => /\ server_pc \in {"recv", "recv2"}
               /\ server_pc' \in {"recv2", "send"}
               /\ client_pc' = client_pc
               /\ main_pc' = main_pc
       /\ (client_pc' # client_pc \/ main_pc' # main_pc)
            => endpoint' = endpoint
       /\ fwd_recv' # fwd_recv
            => /\ server_pc = "recv2"
               /\ endpoint' = fwd_recv'[Len(fwd_recv')].src]_vars

\* the instance has been destroyed after the server loop replaced the source
\* SrcA by SrcB and the client loop sent a reverse datagram
C15_Witness ==
    /\ main_pc = "destroyed"
    /\ Len(fwd_recv) = 2
    /\ fwd_recv[1].src = SrcA
    /\ endpoint = SrcB
    /\ rev_sent # <<>>

\* C16: a forward datagram is sent to the peer only after its source has
\* been stored in _endpoint and the server loop has released the lock; and a
\* reverse datagram received when k > 0 forward datagrams had been sent to
\* the peer is sent to the source of the k-th or of a later forward
\* datagram.
C16_RecordBeforeForward ==
    /\ [](/\ Len(fwd_sent) <= Len(fwd_recv)
          /\ server_pc = "send"
               => /\ Len(fwd_sent) = Len(fwd_recv) - 1
                  /\ endpoint_mutex # "server"
                  /\ endpoint = LatestSource
          /\ client_pc \in {"lock", "send_to"}
               => client_nsent <= Len(fwd_recv))
    /\ [][(rev_sent' # rev_sent /\ client_nsent > 0)
            => \E j \in client_nsent .. Len(fwd_recv) :
                 rev_sent'[Len(rev_sent')].dest = fwd_recv[j].src]_vars

\* a reverse datagram received after both forward datagrams had been sent to
\* the peer is being sent to the source of the second one, SrcB, while an
\* earlier reverse datagram went to the source of the first, SrcA
C16_Witness ==
    /\ Len(fwd_recv) = 2
    /\ fwd_recv[1].src = SrcA
    /\ fwd_recv[2].src = SrcB
    /\ client_pc = "send_to"
    /\ client_nsent = 2
    /\ endpoint = SrcB
    /\ rev_sent # <<>>
    /\ rev_sent[1].dest = SrcA

C18_TimeoutNoEffect ==
    [][/\ (server_pc = "select" /\ server_inbox = <<>>
             /\ server_pc' # server_pc)
            => /\ server_pc' = "check"
               /\ UNCHANGED <<endpoint, endpoint_mutex, server_socket,
                              client_socket, server_buff, net_vars,
                              fwd_recv, fwd_sent, rev_recv, rev_sent>>
       /\ (client_pc = "select" /\ client_inbox = <<>>
             /\ client_pc' # client_pc)
            => /\ client_pc' = "check"
               /\ UNCHANGED <<endpoint, endpoint_mutex, server_socket,
                              client_socket, client_buff, net_vars,
                              fwd_recv, fwd_sent, rev_recv, rev_sent>>]_vars

\* the client loop, whose socket never received anything, has timed out once
\* more after cancellation and exited; the source recorded by the server
\* loop is still in _endpoint and both sockets are still open
C18_Witness ==
    /\ client_pc = "exited"
    /\ waits_after["client"] = 1
    /\ rev_in = <<>>
    /\ fwd_sent # <<>>
    /\ endpoint = SrcA
    /\ server_socket = "open"
    /\ client_socket = "open"

\* C19 (as claimed): the client loop has received the datagrams in the order
\* the client socket delivered them, at most one received datagram is not
\* yet sent, and that only between its receive and its send_to; the payloads
\* sent on the reverse path are, unchanged and in order, the payloads
\* delivered.
C19_ReverseOrderVerbatim ==
    /\ IsPrefix(rev_recv, rev_in)
    /\ Len(rev_recv) - Len(rev_sent) =
         (IF client_pc \in {"lock", "send_to"} THEN 1 ELSE 0)
    /\ \A i \in DOMAIN rev_sent : rev_sent[i].payload = rev_in[i]

\* C19 (amended): the same, with each payload sent unchanged when it has at
\* most insane_mtu bytes and cut to its first insane_mtu bytes otherwise.
C19_ReverseOrder ==
    /\ IsPrefix(rev_recv, rev_in)
    /\ Len(rev_recv) - Len(rev_sent) =
         (IF client_pc \in {"lock", "send_to"} THEN 1 ELSE 0)
    /\ \A i \in DOMAIN rev_sent : rev_sent[i].payload = Relayed(rev_in[i])

\* two reverse datagrams have been sent in their order of arrival, the
\* second one, longer than buff, cut to insane_mtu bytes
C19_Witness ==
    /\ Len(rev_sent) = 2
    /\ rev_sent[1].payload = rev_in[1]
    /\ rev_in[2].len > insane_mtu
    /\ rev_sent[2].payload = [id |-> 2, len |-> insane_mtu]
    /\ Len(rev_recv) = 2
====
